---- MODULE Spec2Model ----
(***************************************************************************)
(* SARSingleNode (reco_utils_2/recommender/sar/sar_singlenode.py): the     *)
(* fitted model's fields, fit, and the scoring operations, as a state      *)
(* machine.                                                                *)
(*                                                                         *)
(* Numbers.  A numpy float is the pair <<n, d>>: the rational n/d in       *)
(* lowest terms when d > 0, and <<1,0>> = +inf, <<-1,0>> = -inf,           *)
(* <<0,0>> = NaN.  Arithmetic on finite values is exact (rounding of       *)
(* binary floating point is not modelled); arithmetic on the special       *)
(* values follows IEEE 754 as numpy applies it.                            *)
(*                                                                         *)
(* Optional fields.  A field that is None in Python is <<>>, a field that  *)
(* holds v is <<v>>.                                                       *)
(*                                                                         *)
(* Intermediate values are passed as operator parameters rather than bound *)
(* by LET, so that TLC computes each of them once.                         *)
(***************************************************************************)
EXTENDS Integers, Sequences, FiniteSets, TLC

----------------------------------------------------------------------------------
(* Floats *)

Abs(n) == IF n < 0 THEN -n ELSE n

Sgn(n) == IF n < 0 THEN -1 ELSE IF n > 0 THEN 1 ELSE 0

RECURSIVE GCD(_, _)
GCD(a, b) == IF b = 0 THEN a ELSE GCD(b, a % b)

Reduce(n, d, g) == <<Sgn(n) * (Abs(n) \div g), d \div g>>

Norm(n, d) == IF n = 0 THEN <<0, 1>> ELSE Reduce(n, d, GCD(Abs(n), d))

R(n) == <<n, 1>>

Zero == <<0, 1>>

One == <<1, 1>>

Inf == <<1, 0>>

NegInf == <<-1, 0>>

NaN == <<0, 0>>

IsFinite(a) == a[2] # 0

FAdd(a, b) ==
    IF a[2] # 0 /\ b[2] # 0 THEN Norm(a[1] * b[2] + b[1] * a[2], a[2] * b[2])
    ELSE IF a = NaN \/ b = NaN THEN NaN
    ELSE IF a[2] = 0 /\ b[2] = 0 THEN (IF a = b THEN a ELSE NaN)
    ELSE IF a[2] = 0 THEN a ELSE b

FMul(a, b) ==
    IF a[2] # 0 /\ b[2] # 0 THEN Norm(a[1] * b[1], a[2] * b[2])
    ELSE IF a = NaN \/ b = NaN THEN NaN
    ELSE IF a[1] = 0 \/ b[1] = 0 THEN NaN
    ELSE <<Sgn(a[1]) * Sgn(b[1]), 0>>

\* numpy true division; a zero divisor is +0.0
FDiv(a, b) ==
    IF a = NaN \/ b = NaN THEN NaN
    ELSE IF a[2] = 0 /\ b[2] = 0 THEN NaN
    ELSE IF a[2] = 0 THEN (IF b[1] < 0 THEN <<-a[1], 0>> ELSE a)
    ELSE IF b[2] = 0 THEN Zero
    ELSE IF b[1] = 0 THEN <<Sgn(a[1]), 0>>
    ELSE Norm(a[1] * b[2] * Sgn(b[1]), a[2] * Abs(b[1]))

\* a < b, with NaN ordered after every other value (numpy's sort order)
FLess(a, b) ==
    IF a = NaN THEN FALSE
    ELSE IF b = NaN THEN TRUE
    ELSE IF a = b THEN FALSE
    ELSE IF a = NegInf \/ b = Inf THEN TRUE
    ELSE IF a = Inf \/ b = NegInf THEN FALSE
    ELSE a[1] * b[2] < b[1] * a[2]

\* ndarray.astype: to an integer dtype truncates toward zero
AsType(dtype, a) ==
    IF dtype = "int64" /\ IsFinite(a)
    THEN <<Sgn(a[1]) * (Abs(a[1]) \div a[2]), 1>>
    ELSE a

RECURSIVE Pow2(_)
Pow2(e) == IF e = 0 THEN 1 ELSE 2 * Pow2(e - 1)

----------------------------------------------------------------------------
(* Options and sequences *)

None == <<>>

Some(v) == <<v>>

Range(s) == {s[k] : k \in 1..Len(s)}

AppendNew(p, x) == IF x \in Range(p) THEN p ELSE Append(p, x)

\* pandas Series.unique / drop_duplicates: first occurrences, in order
RECURSIVE Unique(_)
Unique(s) ==
    IF s = <<>> THEN <<>>
    ELSE AppendNew(Unique(SubSeq(s, 1, Len(s) - 1)), s[Len(s)])

RECURSIVE SumSeq(_)
SumSeq(s) == IF s = <<>> THEN Zero ELSE FAdd(s[1], SumSeq(Tail(s)))

RECURSIVE SumInt(_)
SumInt(s) == IF s = <<>> THEN 0 ELSE s[1] + SumInt(Tail(s))

Max2(a, b) == IF a > b THEN a ELSE b

RECURSIVE MaxInt(_)
MaxInt(s) == IF Len(s) = 1 THEN s[1] ELSE Max2(s[1], MaxInt(Tail(s)))

Map(s, F(_)) == [k \in 1..Len(s) |-> F(s[k])]

\* the elements of s at the positions idx
Pick(s, idx) == [j \in 1..Len(idx) |-> s[idx[j]]]

\* the positions of s, in order, that satisfy Test
Where(s, Test(_)) == SelectSeq([k \in 1..Len(s) |-> k], Test)

RECURSIVE Flatten(_)
Flatten(ss) == IF ss = <<>> THEN <<>> ELSE ss[1] \o Flatten(Tail(ss))

----------------------------------------------------------------------
(* Inputs *)

\* largest number of rows of a generated training table
MaxRows == 2

\* largest co-occurrence threshold a model is constructed with
MaxThreshold == 2

\* time_decay_coefficient, in days (constructor default)
time_decay_coefficient == 30

\* self.time_decay_half_life, in seconds
time_decay_half_life == time_decay_coefficient * 24 * 60 * 60

COOCCUR == "cooccurrence"

JACCARD == "jaccard"

LIFT == "lift"

\* the similarity types fit computes from the ratings alone
SimilarityTypes == {COOCCUR, JACCARD, LIFT}

\* rating column dtypes: two numeric ones and a non-numeric one
DTypes == {"int64", "float64", "object"}

Users == {"A", "B", "C"}

Items == {"x", "y", "z"}

\* users, items, ratings and timestamps of the generated training tables
TableUsers == {"A", "B"}

TableItems == {"x", "y"}

Ratings == {-1, 2}

Timestamps == {0, time_decay_half_life}

Row(u, i, r, t) == [user |-> u, item |-> i, rating |-> r, timestamp |-> t]

\* the three-user, three-item training table of the documentation
Scenario ==
    << Row("A", "x", 5, 0), Row("A", "y", 3, 0), Row("B", "x", 4, 0),
       Row("B", "z", 2, 0), Row("C", "y", 1, 0) >>

TableRows(times) ==
    {Row(u, i, r, t) : u \in TableUsers, i \in TableItems, r \in Ratings, t \in times}

\* The timestamp column is read only when time decay is on (fit selects it
\* only then), so tables for a model without decay carry one timestamp.
TrainingTables(decay) ==
    LET rows == TableRows(IF decay THEN Timestamps ELSE {0}) IN
    {Scenario} \cup UNION {[1..n -> rows] : n \in 1..MaxRows}

----------------------------------------------------------------------------
(* State *)

VARIABLES
    similarity_type,      \* constructor arguments
    time_decay_flag,
    threshold,
    normalize,
    time_now,             \* Option(Int)
    user_affinity,        \* Option(sparse matrix: stored <<u, i>> -> float)
    unity_user_affinity,  \* Option(sparse matrix)
    item_similarity,      \* Option(dense matrix [i -> [j -> float]])
    item_frequencies,     \* Option([i -> float])
    n_users,              \* Option(Nat)
    n_items,              \* Option(Nat)
    user2index,           \* Option([user id -> index])
    item2index,           \* Option([item id -> index])
    index2item,           \* Option([index -> item id])
    train,                \* the arguments of the fit call, Option([df, dtype])
    cooccurrence,         \* fit's locals, Option([counts, masked]): U^T U before
                          \* and item_cooccurrence after the threshold mask
    last                  \* the last call and what it returned or raised

config == <<similarity_type, time_decay_flag, threshold, normalize>>

index == <<user2index, item2index, index2item, n_users, n_items>>

matrices == <<user_affinity, unity_user_affinity, item_similarity, item_frequencies>>

fields == <<index, matrices>>

vars == <<config, time_now, fields, train, cooccurrence, last>>

\* a call record; the fields a call does not use keep these values
NoCall ==
    [op |-> "init", err |-> "", test |-> <<>>, remove_seen |-> FALSE,
     normalize |-> FALSE, top_k |-> 0, steps |-> <<>>, scores |-> <<>>,
     rows |-> <<>>]

----------------------------------------------------------------------------------
(* fit *)

Col(df, c) == [k \in 1..Len(df) |-> df[k][c]]

\* dict(enumerate(u)) for the sequence u
EnumerateSeq(u) == [k \in 0..(Len(u) - 1) |-> u[k + 1]]

\* dict(enumerate(s.unique()))
Enumerate(s) == EnumerateSeq(Unique(s))

\* {v: k for k, v in f.items()}
Invert(f) == [v \in {f[k] : k \in DOMAIN f} |-> CHOOSE k \in DOMAIN f : f[k] = v]

IndexOf(i2i, u2i) ==
    [index2item |-> i2i, item2index |-> Invert(i2i), user2index |-> u2i,
     n_users |-> Cardinality(DOMAIN u2i), n_items |-> Cardinality(DOMAIN i2i)]

set_index(df) ==
    IndexOf(Enumerate(Col(df, "item")), Invert(Enumerate(Col(df, "user"))))

\* temp_df: the selected columns, the rating as a float, and the columns fit
\* adds later (_unity_rating, _indexed_items, _indexed_users), zero until set
TempRow(r) ==
    [user |-> r.user, item |-> r.item, rating |-> R(r.rating),
     timestamp |-> r.timestamp, unity |-> Zero, item_id |-> 0, user_id |-> 0]

Key(r) == <<r.user, r.item>>

\* 2 ^ e for an integer e
Pow2Float(e) == IF e >= 0 THEN <<Pow2(e), 1>> ELSE <<1, Pow2(-e)>>

\* reco_utils.common.python_utils.exponential_decay:
\* 0.5 ^ ((max_val - value) / half_life), for differences that are whole
\* multiples of the half life
exponential_decay(value, max_val, half_life) ==
    Pow2Float((value - max_val) \div half_life)

\* one row of groupby(...).sum(): the key and the sum of every other column
GroupRow(k, g) ==
    [user |-> k[1], item |-> k[2],
     rating |-> SumSeq(Col(g, "rating")),
     timestamp |-> SumInt(Col(g, "timestamp")),
     unity |-> SumSeq(Col(g, "unity")),
     item_id |-> SumInt(Col(g, "item_id")),
     user_id |-> SumInt(Col(g, "user_id"))]

GroupSumKeys(df, keys) ==
    [j \in 1..Len(keys) |->
        GroupRow(keys[j], SelectSeq(df, LAMBDA r : Key(r) = keys[j]))]

\* df.groupby([col_user, col_item]).sum().reset_index(): one row per key, every
\* other column summed.  (pandas orders the groups by key; the order of
\* temp_df's rows is not read by anything that follows.)
GroupSum(df) == GroupSumKeys(df, Unique(Map(df, Key)))

\* df[decay_column] *= exponential_decay(df[col_timestamp], t, half_life)
Decayed(df, decay_column, t) ==
    [k \in 1..Len(df) |->
        [df[k] EXCEPT ![decay_column] =
            FMul(@, exponential_decay(df[k].timestamp, t, time_decay_half_life))]]

TimeDecayAt(df, decay_column, t) ==
    [df |-> GroupSum(Decayed(df, decay_column, t)), time_now |-> Some(t)]

\* compute_time_decay(df, decay_column) with self.time_now = now; the result
\* names the DataFrame returned and self.time_now afterwards
compute_time_decay(df, decay_column, now) ==
    TimeDecayAt(df, decay_column,
                IF now = None THEN MaxInt(Col(df, "timestamp")) ELSE now[1])

\* drop_duplicates_last without the de-duplication
drop_duplicates_none(df) == df

\* temp_df.drop_duplicates([col_user, col_item], keep="last")
drop_duplicates_last(df) ==
    Pick(df, Where(df, LAMBDA k : \A j \in (k + 1)..Len(df) : Key(df[j]) # Key(df[k])))

\* sparse.coo_matrix((data, (rows, cols))).tocsr(): the stored positions are
\* the positions named by a row; entries of one position are summed
Coo(data, rows, cols) ==
    [p \in {<<rows[k], cols[k]>> : k \in 1..Len(data)} |->
        SumSeq(Pick(data, Where(data, LAMBDA k : <<rows[k], cols[k]>> = p)))]

\* entry of a sparse matrix
At(M, r, c) == IF <<r, c>> \in DOMAIN M THEN M[<<r, c>>] ELSE Zero

compute_affinity_matrix(df, rating_col) ==
    Coo(Col(df, rating_col), Col(df, "user_id"), Col(df, "item_id"))

\* user_item_hits.transpose().dot(user_item_hits)
HitsDot(hits, nu, ni) ==
    [i \in 0..(ni - 1) |-> [j \in 0..(ni - 1) |->
        SumSeq([u \in 1..nu |-> FMul(At(hits, u - 1, i), At(hits, u - 1, j))])]]

\* ThresholdMask with > in place of >=
ThresholdMaskStrict(counts, dtype, thr) ==
    [i \in DOMAIN counts |-> [j \in DOMAIN counts |->
        AsType(dtype, IF FLess(R(thr), counts[i][j]) THEN counts[i][j] ELSE Zero)]]

\* item_cooccurrence.multiply(item_cooccurrence >= threshold).astype(dtype)
ThresholdMask(counts, dtype, thr) ==
    [i \in DOMAIN counts |-> [j \in DOMAIN counts |->
        AsType(dtype, IF FLess(counts[i][j], R(thr)) THEN Zero ELSE counts[i][j])]]

Cooccurrence(counts, dtype, thr) ==
    [counts |-> counts, masked |-> ThresholdMask(counts, dtype, thr)]

\* compute_coocurrence_matrix(df) for a temp_df whose rating column has dtype;
\* counts is U^T U before the mask, masked the matrix returned
compute_coocurrence_matrix(df, dtype, nu, ni, thr) ==
    Cooccurrence(HitsDot(Coo([k \in 1..Len(df) |-> One], Col(df, "user_id"),
                             Col(df, "item_id")), nu, ni),
                 dtype, thr)

diagonal(C) == [i \in DOMAIN C |-> C[i][i]]

Ratio(num, den) == IF den = Zero THEN Zero ELSE FDiv(num, den)

\* reco_utils.common.python_utils.jaccard: C / (diag_i + diag_j - C), 0/0 = 0
jaccard(C) ==
    [i \in DOMAIN C |-> [j \in DOMAIN C |->
        Ratio(C[i][j], FAdd(FAdd(C[i][i], C[j][j]), FMul(R(-1), C[i][j])))]]

\* reco_utils.common.python_utils.lift: C / (diag_i * diag_j), 0/0 = 0
lift(C) ==
    [i \in DOMAIN C |-> [j \in DOMAIN C |->
        Ratio(C[i][j], FMul(C[i][i], C[j][j]))]]

astype(M, dtype) == [i \in DOMAIN M |-> [j \in DOMAIN M[i] |-> AsType(dtype, M[i][j])]]

\* the index fit works with: set_index(df) unless the model has one
FitIndex(df) ==
    IF index2item = None THEN set_index(df)
    ELSE [index2item |-> index2item[1], item2index |-> item2index[1],
          user2index |-> user2index[1], n_users |-> n_users[1],
          n_items |-> n_items[1]]

\* the raise of fit on a non-numeric rating column: the index is set, the
\* matrices are as before
FitInvalid(idx) ==
    [err |-> "InvalidInput",
     index2item |-> Some(idx.index2item), item2index |-> Some(idx.item2index),
     user2index |-> Some(idx.user2index), n_users |-> Some(idx.n_users),
     n_items |-> Some(idx.n_items),
     time_now |-> time_now, user_affinity |-> user_affinity,
     unity_user_affinity |-> unity_user_affinity,
     item_similarity |-> item_similarity,
     item_frequencies |-> item_frequencies, cooccurrence |-> None]

\* the similarity of the model's similarity_type, from item_cooccurrence
Similarity(C, dtype) ==
    IF similarity_type = COOCCUR THEN C
    ELSE IF similarity_type = JACCARD THEN astype(jaccard(C), dtype)
    ELSE astype(lift(C), dtype)

\* the end of fit: the fields from the final temp_df and item_cooccurrence
FitDone(idx, dtype, temp_df, now, co) ==
    [err |-> "",
     index2item |-> Some(idx.index2item), item2index |-> Some(idx.item2index),
     user2index |-> Some(idx.user2index), n_users |-> Some(idx.n_users),
     n_items |-> Some(idx.n_items),
     time_now |-> now,
     user_affinity |-> Some(compute_affinity_matrix(temp_df, "rating")),
     unity_user_affinity |->
         IF normalize THEN Some(compute_affinity_matrix(temp_df, "unity"))
         ELSE unity_user_affinity,
     item_similarity |-> Some(Similarity(co.masked, dtype)),
     item_frequencies |-> Some(diagonal(co.masked)),
     cooccurrence |-> Some(co)]

\* the affinity and co-occurrence matrices; the rating column of temp_df is
\* float64 after a decay, and has the input's dtype otherwise
FitMatrices(idx, dtype, t) ==
    FitDone(idx, dtype, t.df, t.time_now,
            compute_coocurrence_matrix(t.df,
                                       IF time_decay_flag THEN "float64" ELSE dtype,
                                       idx.n_users, idx.n_items, threshold))

\* temp_df[col_unity_rating] = 1.0, decayed as the ratings were
FitUnity(idx, dtype, df, now) ==
    FitMatrices(idx, dtype,
        IF ~normalize THEN [df |-> df, time_now |-> now]
        ELSE IF time_decay_flag
        THEN compute_time_decay([k \in 1..Len(df) |-> [df[k] EXCEPT !.unity = One]],
                                "unity", now)
        ELSE [df |-> [k \in 1..Len(df) |-> [df[k] EXCEPT !.unity = One]],
              time_now |-> now])

\* the index columns of temp_df
FitIndexed(idx, dtype, t) ==
    FitUnity(idx, dtype,
             [k \in 1..Len(t.df) |->
                 [t.df[k] EXCEPT !.item_id = idx.item2index[t.df[k].item],
                                 !.user_id = idx.user2index[t.df[k].user]]],
             t.time_now)

\* the affinities: decayed and summed, or the last rating of each pair
FitAffinity(idx, df, dtype) ==
    IF dtype = "object" THEN FitInvalid(idx)
    ELSE FitIndexed(idx, dtype,
             IF time_decay_flag
             THEN compute_time_decay(Map(df, TempRow), "rating", time_now)
             ELSE [df |-> drop_duplicates_last(Map(df, TempRow)),
                   time_now |-> time_now])

\* fit(df, ...) on the model's current fields, with no cached feature
\* similarity on disk and demo = False (load = False).  The result names the
\* value of every field when fit returns or raises.
fit(df, dtype) == FitAffinity(FitIndex(df), df, dtype)

Assign(f, df, dtype) ==
    /\ index2item' = f.index2item
    /\ item2index' = f.item2index
    /\ user2index' = f.user2index
    /\ n_users' = f.n_users
    /\ n_items' = f.n_items
    /\ time_now' = f.time_now
    /\ user_affinity' = f.user_affinity
    /\ unity_user_affinity' = f.unity_user_affinity
    /\ item_similarity' = f.item_similarity
    /\ item_frequencies' = f.item_frequencies
    /\ cooccurrence' = f.cooccurrence
    /\ train' = Some([df |-> df, dtype |-> dtype])
    /\ last' = [NoCall EXCEPT !.op = "fit", !.err = f.err]

\* fit is called once, on a model as constructed
FitOn(tables) ==
    /\ index2item = None /\ user_affinity = None
    /\ \E df \in tables, dtype \in DTypes : Assign(fit(df, dtype), df, dtype)
    /\ UNCHANGED config

----------------------------------------------------------------------------
(* The model as constructed: __init__ with time_now = None *)

Init ==
    /\ similarity_type \in SimilarityTypes
    /\ time_decay_flag \in BOOLEAN
    /\ threshold \in 1..MaxThreshold
    /\ normalize \in BOOLEAN
    /\ time_now = None
    /\ user_affinity = None
    /\ unity_user_affinity = None
    /\ item_similarity = None
    /\ item_frequencies = None
    /\ n_users = None
    /\ n_items = None
    /\ user2index = None
    /\ item2index = None
    /\ index2item = None
    /\ train = None
    /\ cooccurrence = None
    /\ last = NoCall

FitAny == FitOn(TrainingTables(time_decay_flag))

NextFit == FitAny

\* fit alone, on every generated training table
SpecFit == Init /\ [][NextFit]_vars

----------------------------------------------------------------------------
(* Scoring *)

Fitted == user_affinity # None

\* M[ids, :].dot(S) for a sparse M and the dense item similarity: row r of
\* the result belongs to ids[r + 1]
RowsDot(M, ids, S) ==
    [r \in 0..(Len(ids) - 1) |-> [j \in DOMAIN S |->
        SumSeq([i \in 1..Cardinality(DOMAIN S) |->
                   FMul(At(M, ids[r + 1], i - 1), S[i - 1][j])])]]

\* test_scores += self.user_affinity[user_ids, :] * -np.inf: the product has
\* an entry where the affinity matrix stores one
MaskSeen(scores, M, ids) ==
    [r \in DOMAIN scores |-> [j \in DOMAIN scores[r] |->
        IF <<ids[r + 1], j>> \in DOMAIN M
        THEN FAdd(scores[r][j], FMul(M[<<ids[r + 1], j>>], NegInf))
        ELSE scores[r][j]]]

NanToNegInf(v) == IF v = NaN THEN NegInf ELSE v

\* np.where(np.isnan(q), -np.inf, q) for q = np.divide(scores, den)
Normalized(scores, den) ==
    [r \in DOMAIN scores |-> [j \in DOMAIN scores[r] |->
        NanToNegInf(FDiv(scores[r][j], den[r][j]))]]

Result(err, steps, scores) == [err |-> err, steps |-> steps, scores |-> scores]

\* the normalize branch of score, reached with the scores computed
ScoreNormalize(scores, ids, steps) ==
    IF unity_user_affinity = None
    THEN Result("NormalizationUnavailable", steps, <<>>)
    ELSE Result("", Append(steps, "normalize"),
                Normalized(scores, RowsDot(unity_user_affinity[1], ids,
                                           item_similarity[1])))

\* the remove_seen branch
ScoreMask(raw, ids, remove_seen, norm) ==
    IF norm
    THEN ScoreNormalize(IF remove_seen THEN MaskSeen(raw, user_affinity[1], ids)
                        ELSE raw,
                        ids,
                        IF remove_seen THEN <<"lookup", "multiply", "mask">>
                        ELSE <<"lookup", "multiply">>)
    ELSE IF remove_seen
    THEN Result("", <<"lookup", "multiply", "mask">>,
                MaskSeen(raw, user_affinity[1], ids))
    ELSE Result("", <<"lookup", "multiply">>, raw)

\* the raw scores of the users, who are all known
ScoreKnown(users, remove_seen, norm) ==
    ScoreMask(RowsDot(user_affinity[1],
                      [k \in 1..Len(users) |-> user2index[1][users[k]]],
                      item_similarity[1]),
              [k \in 1..Len(users) |-> user2index[1][users[k]]],
              remove_seen, norm)

\* ScoreUsers scoring the known users of a batch that has unknown ones
ScoreUsersPartial(users, remove_seen, norm) ==
    ScoreKnown(SelectSeq(users, LAMBDA u : u \in DOMAIN user2index[1]),
               remove_seen, norm)

ScoreUsers(users, remove_seen, norm) ==
    IF \E k \in 1..Len(users) : users[k] \notin DOMAIN user2index[1]
    THEN Result("UnknownEntity", <<"lookup">>, <<>>)
    ELSE ScoreKnown(users, remove_seen, norm)

\* score(test, remove_seen, normalize); test is the user column.  steps
\* lists the work done in order, up to the return or the raise.
score(test, remove_seen, norm) == ScoreUsers(Unique(test), remove_seen, norm)

\* a is selected before b: the larger score, then the smaller column
Before(v, a, b) == FLess(v[b], v[a]) \/ (v[a] = v[b] /\ a < b)

\* the column of v with p - 1 columns before it
Ranked(v, p) ==
    CHOOSE j \in DOMAIN v : Cardinality({a \in DOMAIN v : Before(v, a, j)}) = p - 1

TopOne(v, j) == [item |-> j, score |-> v[j]]

Min2(a, b) == IF a < b THEN a ELSE b

\* reco_utils.common.python_utils.get_top_k_scored_items with sort_top_k=True:
\* per row the min(top_k, columns) largest scores, descending, ties by
\* ascending column; NaN sorts as the largest value (numpy's order).
\* The result row is a sequence of [item, score].
get_top_k_scored_items(scores, top_k) ==
    [r \in DOMAIN scores |->
        [p \in 1..Min2(top_k, Cardinality(DOMAIN scores[r])) |->
            TopOne(scores[r], Ranked(scores[r], p))]]

\* the result DataFrame of a top-k call: one row per user and selected item,
\* then df.replace(-np.inf, np.nan).dropna()
TopKFrame(users, top) ==
    SelectSeq(Flatten([r \in 1..Len(users) |->
                  [p \in 1..Len(top[r - 1]) |->
                      [user |-> users[r],
                       item |-> index2item[1][top[r - 1][p].item],
                       prediction |-> top[r - 1][p].score]]]),
              LAMBDA row : row.prediction # NegInf /\ row.prediction # NaN)

Frame(err, steps, scores, rows) ==
    [err |-> err, steps |-> steps, scores |-> scores, rows |-> rows]

RecommendFrom(s, users, top_k) ==
    IF s.err # "" THEN Frame(s.err, s.steps, <<>>, <<>>)
    ELSE Frame("", s.steps, s.scores,
               TopKFrame(users, get_top_k_scored_items(s.scores, top_k)))

recommend_k_items(test, top_k, remove_seen, norm) ==
    RecommendFrom(score(test, remove_seen, norm), Unique(test), top_k)

\* np.append(test_scores, np.zeros((self.n_users, 1)), axis=1), for a
\* test_scores of n_users rows
AppendZeros(scores) ==
    [r \in DOMAIN scores |->
        [j \in 0..n_items[1] |-> IF j = n_items[1] THEN Zero ELSE scores[r][j]]]

\* test_scores[user_ids, item_ids]
PredictIndex(test, steps, scores, user_ids, item_ids) ==
    IF \E k \in 1..Len(test) : user_ids[k] >= Cardinality(DOMAIN scores)
    THEN Frame("IndexError", Append(steps, "index"), <<>>, <<>>)
    ELSE Frame("", Append(steps, "index"), <<>>,
               [k \in 1..Len(test) |->
                   [user |-> test[k].user, item |-> test[k].item,
                    prediction |-> scores[user_ids[k]][item_ids[k]]]])

\* the column of zeros for the items that are not in item2index
PredictItems(test, s, user_ids, nans) ==
    IF nans = {}
    THEN PredictIndex(test, s.steps, s.scores, user_ids,
                      [k \in 1..Len(test) |-> item2index[1][test[k].item]])
    ELSE IF Cardinality(DOMAIN s.scores) # n_users[1]
    THEN Frame("ShapeMismatch", Append(s.steps, "append"), <<>>, <<>>)
    ELSE PredictIndex(test, Append(s.steps, "append"), AppendZeros(s.scores),
                      user_ids,
                      [k \in 1..Len(test) |->
                          IF k \in nans THEN n_items[1]
                          ELSE item2index[1][test[k].item]])

PredictFrom(test, s) ==
    IF s.err # "" THEN Frame(s.err, s.steps, <<>>, <<>>)
    ELSE PredictItems(test, s,
                      [k \in 1..Len(test) |-> user2index[1][test[k].user]],
                      {k \in 1..Len(test) : test[k].item \notin DOMAIN item2index[1]})

\* predict(test); test is a sequence of [user, item]
predict(test) == PredictFrom(test, score(Col(test, "user"), FALSE, FALSE))

\* MaskSeeds without the assignment
MaskSeedsNone(scores, seeds) == scores

\* test_scores[user_ids, item_ids] = -np.inf
MaskSeeds(scores, seeds) ==
    [r \in DOMAIN scores |-> [j \in DOMAIN scores[r] |->
        IF <<r, j>> \in seeds THEN NegInf ELSE scores[r][j]]]

ItemTopkFrame(test_scores, users, top_k) ==
    Frame("", <<"multiply", "mask">>, test_scores,
          TopKFrame(users, get_top_k_scored_items(test_scores, top_k)))

\* the pseudo affinity of the seed rows and the scores it gives
ItemTopkScores(ratings, test_users, user_ids, item_ids, top_k) ==
    ItemTopkFrame(
        MaskSeeds(RowsDot(Coo(ratings, user_ids, item_ids),
                          [r \in 1..Cardinality(Range(user_ids)) |-> r - 1],
                          item_similarity[1]),
                  {<<user_ids[k], item_ids[k]>> : k \in 1..Len(item_ids)}),
        Unique(test_users), top_k)

\* the dtype of self.item_similarity: item_cooccurrence has the dtype of
\* temp_df's rating column (float64 after a decay), jaccard and lift are cast
\* to the dtype of df's rating column
SimilarityDType ==
    IF similarity_type = COOCCUR /\ time_decay_flag THEN "float64"
    ELSE train[1].dtype

\* the local user index; without a user column every row is user 0
ItemTopkUsers(items, ratings, test_users, top_k) ==
    ItemTopkScores(ratings, test_users,
                   Map(test_users, LAMBDA u : Invert(Enumerate(test_users))[u]),
                   [k \in 1..Len(items) |-> item2index[1][items[k].item]],
                   top_k)

\* get_item_based_topk(items, top_k); items is a sequence of
\* [item, user, rating], has_user and has_rating say which of the optional
\* columns the table has.  Every seed item is in item2index.
\* The seed ratings are integers (np.ones_like(item_ids) without a rating
\* column), so test_scores has the dtype of item_similarity, and the
\* assignment of -np.inf to an integer matrix raises OverflowError.
get_item_based_topk(items, has_user, has_rating, top_k) ==
    IF SimilarityDType = "int64"
    THEN Frame("OverflowError", <<"multiply">>, <<>>, <<>>)
    ELSE ItemTopkUsers(items,
                       [k \in 1..Len(items) |->
                           IF has_rating THEN R(items[k].rating) ELSE One],
                       [k \in 1..Len(items) |->
                           IF has_user THEN items[k].user ELSE "0"],
                       top_k)

PopularityFrame(top) ==
    [p \in 1..Len(top) |->
        [user |-> "", item |-> index2item[1][top[p].item],
         prediction |-> top[p].score]]

\* get_popularity_based_topk(top_k): the rows carry no user
get_popularity_based_topk(top_k) ==
    Frame("", <<>>, [r \in {0} |-> item_frequencies[1]],
          PopularityFrame(
              get_top_k_scored_items([r \in {0} |-> item_frequencies[1]], top_k)[0]))

----------------------------------------------------------------------
(* Requests *)

\* longest scoring request (rows of test, or of a seed table)
MaxTest == 2

\* longest request of a call that is one of a sequence of calls
MaxSeqTest == 1

\* largest top_k
MaxTopK == 2

Seqs(S, n) == UNION {[1..m -> S] : m \in 1..n}

\* items of a predict request; "w" is in no training table
RequestItems == {"x", "y", "w"}

UserRequests(n) == Seqs(Users, n)

PairRequests(n) == Seqs([user : Users, item : RequestItems], n)

\* grouping users and ratings of a seed table
SeedUsers == {"P", "Q"}

SeedRatings == {-1, 2}

SeedTables(has_user, has_rating, n) ==
    Seqs([item : Items,
          user : IF has_user THEN SeedUsers ELSE {"0"},
          rating : IF has_rating THEN SeedRatings ELSE {1}], n)

\* rows of the training tables the scoring operations are explored on: a
\* negative rating, a pair rated twice (the two ratings cancel under decay),
\* an item two users share, a user with two items
ScoringRows ==
    { Row("A", "x", -1, time_decay_half_life), Row("A", "x", 2, 0),
      Row("B", "x", 2, 0), Row("B", "y", 2, 0) }

ScoringTables(n) == {Scenario} \cup Seqs(ScoringRows, n)

----------------------------------------------------------------------------
(* Actions.  A scoring action records the call in last; n bounds the length
   of its request. *)

model == <<config, time_now, fields, train, cooccurrence>>

\* the record of a call that returns a score matrix
Call(op, res, test, remove_seen, norm, top_k) ==
    [op |-> op, err |-> res.err, test |-> test, remove_seen |-> remove_seen,
     normalize |-> norm, top_k |-> top_k, steps |-> res.steps,
     scores |-> res.scores, rows |-> <<>>]

\* the record of a call that returns a DataFrame
CallRows(op, res, test, remove_seen, norm, top_k) ==
    [op |-> op, err |-> res.err, test |-> test, remove_seen |-> remove_seen,
     normalize |-> norm, top_k |-> top_k, steps |-> res.steps,
     scores |-> res.scores, rows |-> res.rows]

\* Score with the seen-item mask applied to self.user_affinity in place
ScoreInPlace(n) ==
    /\ Fitted
    /\ \E test \in UserRequests(n), remove_seen \in BOOLEAN, norm \in BOOLEAN :
         /\ last' = Call("score", score(test, remove_seen, norm),
                         test, remove_seen, norm, 0)
         /\ user_affinity' =
                IF remove_seen
                THEN Some([p \in DOMAIN user_affinity[1] |->
                              FMul(user_affinity[1][p], NegInf)])
                ELSE user_affinity
    /\ UNCHANGED <<config, time_now, index, unity_user_affinity, item_similarity,
                   item_frequencies, train, cooccurrence>>

Score(n) ==
    /\ Fitted
    /\ \E test \in UserRequests(n), remove_seen \in BOOLEAN, norm \in BOOLEAN :
         last' = Call("score", score(test, remove_seen, norm),
                      test, remove_seen, norm, 0)
    /\ UNCHANGED model

RecommendKItems(n) ==
    /\ Fitted
    /\ \E test \in UserRequests(n), top_k \in 1..MaxTopK,
          remove_seen \in BOOLEAN, norm \in BOOLEAN :
         last' = CallRows("recommend_k_items",
                          recommend_k_items(test, top_k, remove_seen, norm),
                          test, remove_seen, norm, top_k)
    /\ UNCHANGED model

Predict(n) ==
    /\ Fitted
    /\ \E test \in PairRequests(n) :
         last' = CallRows("predict", predict(test), test, FALSE, FALSE, 0)
    /\ UNCHANGED model

\* has_user and has_rating are recorded in last.remove_seen and last.normalize
GetItemBasedTopk(n) ==
    /\ Fitted
    /\ \E has_user \in BOOLEAN, has_rating \in BOOLEAN, top_k \in 1..MaxTopK :
         \E items \in SeedTables(has_user, has_rating, n) :
            /\ \A k \in 1..Len(items) : items[k].item \in DOMAIN item2index[1]
            /\ last' = CallRows("get_item_based_topk",
                                get_item_based_topk(items, has_user, has_rating, top_k),
                                items, has_user, has_rating, top_k)
    /\ UNCHANGED model

GetPopularityBasedTopk ==
    /\ Fitted
    /\ \E top_k \in 1..MaxTopK :
         last' = CallRows("get_popularity_based_topk",
                          get_popularity_based_topk(top_k), <<>>, FALSE, FALSE, top_k)
    /\ UNCHANGED model

ScoringOps == {"score", "recommend_k_items", "predict", "get_item_based_topk",
               "get_popularity_based_topk"}

----------------------------------------------------------------------------
(* Specifications *)

Fit == FitOn(ScoringTables(MaxRows))

\* One scoring call on each fitted model.  The scoring operations leave the
\* model as it is (checked on sequences of calls under SpecSeq), so every
\* call is explored from the state fit left.
FirstScore == last.op = "fit" /\ Score(MaxTest)

FirstRecommendKItems == last.op = "fit" /\ RecommendKItems(MaxTest)

FirstPredict == last.op = "fit" /\ Predict(MaxTest)

FirstGetItemBasedTopk == last.op = "fit" /\ GetItemBasedTopk(MaxTest)

FirstGetPopularityBasedTopk == last.op = "fit" /\ GetPopularityBasedTopk

Next ==
    \/ Fit
    \/ FirstScore
    \/ FirstRecommendKItems
    \/ FirstPredict
    \/ FirstGetItemBasedTopk
    \/ FirstGetPopularityBasedTopk

Spec == Init /\ [][Next]_vars

FitSeq == FitOn(ScoringTables(MaxSeqTest))

\* Any sequence of scoring calls, with short requests, on models fitted on
\* short tables
NextSeq ==
    \/ FitSeq
    \/ Score(MaxSeqTest)
    \/ RecommendKItems(MaxSeqTest)
    \/ Predict(MaxSeqTest)
    \/ GetItemBasedTopk(MaxSeqTest)
    \/ GetPopularityBasedTopk

SpecSeq == Init /\ [][NextSeq]_vars


----------------------------------------------------------------------------
(* Properties *)

\* the users of the last request
Requested == IF last.op = "predict" THEN Col(last.test, "user") ELSE last.test

KnownUser(u) == u \in DOMAIN user2index[1]

KnownItem(i) == i \in DOMAIN item2index[1]

\* the training affinity of user u on item i, by their ids
Affinity(u, i) == At(user_affinity[1], user2index[1][u], item2index[1][i])

\* the documentation's scenario: its table, threshold 1, jaccard, no decay
ScenarioModel ==
    /\ train # None
    /\ train[1].df = Scenario
    /\ threshold = 1
    /\ similarity_type = JACCARD
    /\ ~time_decay_flag

\* C1: after score(..., remove_seen=True) every cell of a requested user and an
\* item on which the user has a nonzero training affinity, of either sign, is
\* negative infinity
C1_SeenCellsAreNegInf ==
    (last.op = "score" /\ last.err = "" /\ last.remove_seen) =>
        \A r \in DOMAIN last.scores : \A j \in DOMAIN last.scores[r] :
            Affinity(Unique(last.test)[r + 1], index2item[1][j]) # Zero
                => last.scores[r][j] = NegInf

\* C2: recommend_k_items with remove_seen=True returns no item on which the
\* row's user has a nonzero training affinity; in the scenario the call for
\* user A with top_k = 1 returns exactly item z, with a finite score
C2_NoSeenItemRecommended ==
    (last.op = "recommend_k_items" /\ last.err = "" /\ last.remove_seen) =>
        /\ \A k \in 1..Len(last.rows) :
              Affinity(last.rows[k].user, last.rows[k].item) = Zero
        /\ (ScenarioModel /\ last.test = <<"A">> /\ last.top_k = 1) =>
              /\ Len(last.rows) = 1
              /\ last.rows[1].item = "z"
              /\ IsFinite(last.rows[1].prediction)

\* C3: predict on a request whose users are all known and which has an item
\* outside the index returns one row per request row, and the rows of the
\* unseen items have prediction 0
C3_UnseenItemsPredictZero ==
    ( /\ last.op = "predict"
      /\ \A k \in 1..Len(last.test) : KnownUser(last.test[k].user)
      /\ \E k \in 1..Len(last.test) : ~KnownItem(last.test[k].item) ) =>
        /\ last.err = ""
        /\ Len(last.rows) = Len(last.test)
        /\ \A k \in 1..Len(last.test) :
              ~KnownItem(last.test[k].item) => last.rows[k].prediction = Zero

\* C4: score, recommend_k_items and predict raise UnknownEntity when some
\* requested user is outside the index, and return nothing for any user
C4_UnknownUserFailsBatch ==
    ( /\ last.op \in {"score", "recommend_k_items", "predict"}
      /\ \E k \in 1..Len(Requested) : ~KnownUser(Requested[k]) ) =>
        /\ last.err = "UnknownEntity"
        /\ DOMAIN last.scores = {}
        /\ last.rows = <<>>

\* a batch of a known and an unknown user was refused
C4_MixedBatchRefused ==
    /\ last.op = "score"
    /\ last.err = "UnknownEntity"
    /\ \E k \in 1..Len(last.test) : KnownUser(last.test[k])
    /\ \E k \in 1..Len(last.test) : ~KnownUser(last.test[k])

\* C5: score with normalize=True on a model without the unity affinity matrix
\* raises NormalizationUnavailable, before the multiplication and the mask
C5_NormalizeCheckedBeforeWork ==
    (last.op = "score" /\ last.normalize /\ unity_user_affinity = None) =>
        /\ last.err = "NormalizationUnavailable"
        /\ "multiply" \notin Range(last.steps)
        /\ "mask" \notin Range(last.steps)

\* C6: a fit that raises InvalidInput leaves every field as it was before the
\* call, which is as constructed
C6_InvalidInputNoPartialFit ==
    (last.op = "fit" /\ last.err = "InvalidInput") =>
        /\ index = <<None, None, None, None, None>>
        /\ matrices = <<None, None, None, None>>

\* item_cooccurrence, by item ids
Cooc(a, b) == cooccurrence[1].masked[item2index[1][a]][item2index[1][b]]

ScenarioFit == ScenarioModel /\ cooccurrence # None

\* C7 as claimed: in the scenario co-occurrence(x,y) = 1, co-occurrence(x,z) = 0
\* and co-occurrence(y,z) = 0
C7_ScenarioCooccurrenceClaimed ==
    ScenarioFit =>
        Cooc("x", "y") = One /\ Cooc("x", "z") = Zero /\ Cooc("y", "z") = Zero

\* C7: in the scenario co-occurrence(x,y) = 1 (user A), co-occurrence(x,z) = 1
\* (user B) and co-occurrence(y,z) = 0
C7_ScenarioCooccurrence ==
    ScenarioFit =>
        Cooc("x", "y") = One /\ Cooc("x", "z") = One /\ Cooc("y", "z") = Zero

C7_ScenarioFitted == ScenarioFit /\ train[1].dtype = "float64"

\* the number of distinct users with a training row for item a and one for b
UsersOfBoth(a, b) ==
    Cardinality({u \in Range(Col(train[1].df, "user")) :
        /\ \E k \in 1..Len(train[1].df) :
              train[1].df[k].user = u /\ train[1].df[k].item = a
        /\ \E k \in 1..Len(train[1].df) :
              train[1].df[k].user = u /\ train[1].df[k].item = b})

\* C8: before the mask cell (i,j) counts the distinct users of both i and j
\* (of i on the diagonal); after it a count below the threshold is 0, any
\* other count is kept, and no cell is negative
C8_CooccurrenceCounts ==
    cooccurrence # None =>
        \A i \in DOMAIN index2item[1] : \A j \in DOMAIN index2item[1] :
            /\ cooccurrence[1].counts[i][j] =
                  R(UsersOfBoth(index2item[1][i], index2item[1][j]))
            /\ cooccurrence[1].masked[i][j] =
                  IF UsersOfBoth(index2item[1][i], index2item[1][j]) < threshold
                  THEN Zero
                  ELSE R(UsersOfBoth(index2item[1][i], index2item[1][j]))
            /\ ~FLess(cooccurrence[1].masked[i][j], Zero)

\* a fit whose mask zeroed one nonzero count and kept another
C8_MaskedAndKept ==
    /\ cooccurrence # None
    /\ \E i \in DOMAIN index2item[1] :
          cooccurrence[1].counts[i][i] # Zero /\ cooccurrence[1].masked[i][i] = Zero
    /\ \E i \in DOMAIN index2item[1] : cooccurrence[1].masked[i][i] # Zero

\* C9: in jaccard mode item_similarity(i,j) is
\* co-occurrence(i,j) / (freq(i) + freq(j) - co-occurrence(i,j)), 0/0 = 0, with
\* freq the number of training users of the item; it is 1 on the diagonal of an
\* item with users, 0 where the co-occurrence is 0, and 1/3 for x and y in the
\* scenario
C9_JaccardSimilarity ==
    (cooccurrence # None /\ similarity_type = JACCARD) =>
        /\ \A i \in DOMAIN index2item[1] : \A j \in DOMAIN index2item[1] :
              /\ item_similarity[1][i][j] =
                    Ratio(cooccurrence[1].masked[i][j],
                          R(UsersOfBoth(index2item[1][i], index2item[1][i])
                            + UsersOfBoth(index2item[1][j], index2item[1][j])
                            - cooccurrence[1].masked[i][j][1]))
              /\ cooccurrence[1].masked[i][j] = Zero => item_similarity[1][i][j] = Zero
        /\ \A i \in DOMAIN index2item[1] :
              UsersOfBoth(index2item[1][i], index2item[1][i]) > 0
                  => item_similarity[1][i][i] = One
        /\ ScenarioFit =>
              item_similarity[1][item2index[1]["x"]][item2index[1]["y"]] = <<1, 3>>

\* score called again with the arguments of the last score call returns what
\* that call returned
ScoreRepeats ==
    last.op = "score" =>
        Call("score", score(last.test, last.remove_seen, last.normalize),
             last.test, last.remove_seen, last.normalize, 0) = last

\* C10: in any sequence of scoring calls each call leaves the index and the
\* four matrices as they are, and score called again with the same arguments
\* on the model a score call leaves returns the same result
C10_ScoringLeavesModelUnchanged ==
    /\ [][ last'.op \in ScoringOps => UNCHANGED <<index, matrices>> ]_vars
    /\ []ScoreRepeats

\* a score call masked the seen items of a fitted model
C10_ScoredWithMask ==
    /\ last.op = "score"
    /\ last.err = ""
    /\ last.remove_seen
    /\ Fitted

\* the grouping key of seed row k of the last get_item_based_topk call
SeedKey(k) == IF last.remove_seen THEN last.test[k].user ELSE "0"

\* C11: get_item_based_topk returns no row (grouping key, item) whose item is
\* a seed item of that key, and only finite predictions; with the seed table
\* {(item=x)} and no grouping user, no row has item x
C11_SeedItemsNotReturned ==
    (last.op = "get_item_based_topk" /\ last.err = "") =>
        /\ \A r \in 1..Len(last.rows) :
              /\ IsFinite(last.rows[r].prediction)
              /\ \A k \in 1..Len(last.test) :
                    ~(SeedKey(k) = last.rows[r].user
                      /\ last.test[k].item = last.rows[r].item)
        /\ (~last.remove_seen /\ Col(last.test, "item") = <<"x">>) =>
              \A r \in 1..Len(last.rows) : last.rows[r].item # "x"

\* two grouping keys with different seed items: the seed item of one key is
\* returned for the other
C11_SeedOfAnotherKeyReturned ==
    /\ last.op = "get_item_based_topk"
    /\ last.err = ""
    /\ last.remove_seen
    /\ \E r \in 1..Len(last.rows) : \E k \in 1..Len(last.test) :
          SeedKey(k) # last.rows[r].user /\ last.test[k].item = last.rows[r].item

\* sum over j of user_affinity[u, j] * item_similarity[j, i], by ids
RawScore(u, i) ==
    SumSeq([j \in 1..n_items[1] |->
               FMul(At(user_affinity[1], user2index[1][u], j - 1),
                    item_similarity[1][j - 1][item2index[1][i]])])

\* C12: predict on a request whose users and items are all in the index
\* returns, for every request row, the raw score of the row's own user and
\* item: for any subset of the training users, in any order, with repeats
C12_PredictOwnRow ==
    ( /\ last.op = "predict"
      /\ \A k \in 1..Len(last.test) :
            KnownUser(last.test[k].user) /\ KnownItem(last.test[k].item) ) =>
        /\ last.err = ""
        /\ Len(last.rows) = Len(last.test)
        /\ \A k \in 1..Len(last.test) :
              /\ last.rows[k].user = last.test[k].user
              /\ last.rows[k].item = last.test[k].item
              /\ last.rows[k].prediction = RawScore(last.test[k].user, last.test[k].item)

\* the affinity matrix the fit pipeline gives, with the model's settings and
\* reference time, on the training table with every rating replaced by 1.0
UnityPipeline ==
    fit([k \in 1..Len(train[1].df) |-> [train[1].df[k] EXCEPT !.rating = 1]],
        "float64").user_affinity

\* C13: with normalization enabled the unity affinity matrix built by fit is
\* the affinity matrix of the same pipeline on the training table with every
\* rating replaced by 1.0, without decay and with it, also when a
\* (user, item) pair has several rows with different timestamps
C13_UnityIsAffinityOfOnes ==
    (last.op = "fit" /\ last.err = "" /\ normalize) =>
        unity_user_affinity = UnityPipeline

====
